---- MODULE Spec2Model ----
(***************************************************************************)
(* Model of the blog server (blog-server crate): the account and post      *)
(* stores, the token service, the auth and post use-cases, the HTTP and    *)
(* gRPC adapters, and the process orchestrator of main.rs; and of the      *)
(* client library (blog-client crate) and the command line tool           *)
(* (blog-cli crate).                                                       *)
(*                                                                         *)
(* The specifications share the variables:                                 *)
(*   Spec       - requests served by both adapters while the orchestrator  *)
(*                is Running (both listeners accepting);                   *)
(*   SpecOrch   - the lifecycle of main(): startup, select!, shutdown,     *)
(*                with requests reduced to "in flight on a listener";      *)
(*   SpecOrchFair - SpecOrch with the fairness of the runtime;             *)
(*   SpecList   - get and list requests over stores of many posts;         *)
(*   SpecPage   - a list call, split at its two reads, next to creates     *)
(*                and deletes;                                             *)
(*   SpecCred   - register and login over a store whose password_hash may  *)
(*                be malformed, with the failures of register's calls;     *)
(*   SpecClient - calls on a BlogClient of the blog-client crate, the      *)
(*                server being the environment;                            *)
(*   SpecCli    - runs of blog-cli and its token file.                     *)
(*                                                                         *)
(* Library behaviour is modelled by the contract of the call the source    *)
(* makes: decode(.., Validation::default()) checks the signature, the      *)
(* structure and the expiry with the default leeway; the `exp` claim is    *)
(* taken to travel as the expiry instant.  Storage faults are not part of  *)
(* Spec: every storage call answers.                                       *)
(***************************************************************************)
EXTENDS Integers, Sequences, FiniteSets, Bags, TLC

VARIABLES
    users,        \* table users: sequence of rows, id = position
    posts,        \* table posts: function from the ids of existing rows to rows
    nextPostId,   \* the posts id sequence
    clock,        \* index of the current instant (Now)
    held,         \* per account id: the token its owner keeps (the last issued)
    inflight,     \* bag of the requests suspended between two storage calls
    last,         \* the last response sent by an adapter
    mainPc,       \* position of main()
    httpL,        \* state of the HTTP listener (actix server task)
    grpcL,        \* state of the gRPC listener (tonic server task)
    ctrlC,        \* the Ctrl+C signal is pending
    grpcSignal,   \* grpc_shutdown_tx.send(()) has happened
    httpStop,     \* http_server_handle.stop(true) has been requested
    trigger,      \* the branch select! took
    result,       \* what main() returned
    accepted,     \* listeners that have accepted at least one request
    atCancel,     \* listeners with a request in flight when Ctrl+C was observed
    clientInner,  \* BlogClient.inner: the transport the client was built with
    clientToken,  \* BlogClient.token: {} is None, {t} is Some(t)
    clientSent,   \* number of requests the client has put on the wire
    clientWire,   \* the last request the client put on the wire
    clientResult, \* what the last call on the BlogClient returned
    listing,      \* the list call between its two reads, or its response
    tokenFile,    \* blog-cli: .blog_token; {} is no file, {t} its content
    cliLast       \* blog-cli: the last run of the command line tool

orchVars  == <<mainPc, httpL, grpcL, ctrlC, grpcSignal, httpStop, trigger, result,
               accepted, atCancel>>
clientVars == <<clientInner, clientToken, clientSent, clientWire, clientResult>>
cliVars    == <<tokenFile, cliLast>>
serverVars == <<users, posts, nextPostId, clock, held, inflight, last,
                mainPc, httpL, grpcL, ctrlC, grpcSignal, httpStop, trigger, result,
                accepted, atCancel, listing>>
vars      == <<users, posts, nextPostId, clock, held, inflight, last,
               mainPc, httpL, grpcL, ctrlC, grpcSignal, httpStop, trigger, result,
               accepted, atCancel,
               clientInner, clientToken, clientSent, clientWire, clientResult,
               listing, tokenFile, cliLast>>

----------------------------------------------------------------------------
\* Bounds of the model and input domains.

MaxClock == 1
MaxPosts == 1
MaxInFlight == 2
MaxListed == 12
MaxSent == 2

Usernames == {"alice", "bob"}
Emails    == {"a@x.com", "b@x.com"}
Passwords == {"pw1", "pw2"}
NewAccounts == {<<"alice", "a@x.com", "pw1">>, <<"bob", "b@x.com", "pw2">>,
                <<"bob", "a@x.com", "pw2">>}
Salts     == {"s1"}
Bodies    == {<<"T1", "C1">>, <<"T2", "C2">>}
Adapters  == {"http", "grpc"}
PostIds   == 1..MaxPosts
\* An optional query parameter is the empty set or the set of its value.
Limits    == {{}, {2}}
Offsets   == {{}, {1}}
\* ORDER BY leaves the order of rows with equal keys to the store.
TieBreaks == {"first", "last"}

----------------------------------------------------------------------------
\* Time, in seconds.  TOKEN_LIFETIME is one day; Leeway is the leeway of
\* Validation::default().  The clock visits instants around the end of a
\* token's life: at instant 1 a token issued at instant 0 is past its expiry
\* and the leeway, and from then on each instant is the exact expiry of a
\* token issued at the instant before.

TOKEN_LIFETIME == 86400
Leeway == 60

Instant(i) ==
    IF i = 0 THEN 0 ELSE TOKEN_LIFETIME + Leeway + 1 + (i - 1) * TOKEN_LIFETIME

Now == Instant(clock)

----------------------------------------------------------------------------
\* Domain errors (domain/error.rs) and their wire representation.

\* enum AppError: the kinds of error
AppError ==
    {"UserNotFound", "UserAlreadyExists", "InvalidCredentials", "PostNotFound",
     "Forbidden", "SqlxError", "MigrateError", "DotenvyError", "VarError",
     "InvalidDatetime", "JwtError", "HashError", "InvalidToken", "Io"}

HttpStatusDefault(err) == "500"

\* impl ResponseError for AppError
HttpStatus(err) ==
    CASE err = "UserNotFound"      -> "401"
      [] err = "UserAlreadyExists" -> "409"
      [] err = "InvalidCredentials" -> "401"
      [] err = "PostNotFound"      -> "404"
      [] err = "Forbidden"         -> "403"
      [] err = "InvalidToken"      -> "401"
      [] OTHER                     -> "500"

\* impl From<AppError> for tonic::Status
GrpcStatus(err) ==
    CASE err = "UserNotFound"      -> "NOT_FOUND"
      [] err = "UserAlreadyExists" -> "ALREADY_EXISTS"
      [] err = "InvalidCredentials" -> "UNAUTHENTICATED"
      [] err = "PostNotFound"      -> "NOT_FOUND"
      [] err = "Forbidden"         -> "PERMISSION_DENIED"
      [] err = "InvalidToken"      -> "UNAUTHENTICATED"
      [] OTHER                     -> "INTERNAL"

\* The status an adapter sends for a domain error.
ErrorStatus(a, err) == IF a = "http" THEN HttpStatus(err) ELSE GrpcStatus(err)

\* The status an adapter sends for a success of operation op.
OkStatus(a, op) ==
    IF a = "grpc" THEN "OK"
    ELSE CASE op = "register" -> "201"
           [] op = "login"    -> "200"
           [] op = "create"   -> "201"
           [] op = "update"   -> "200"
           [] op = "delete"   -> "204"
           [] OTHER           -> "200"

----------------------------------------------------------------------------
\* Token service (infrastructure/jwt.rs).

ServerKey == "server"
OtherKey  == "other"

AbsentToken    == [kind |-> "absent", user_id |-> 0, username |-> "", exp |-> 0, key |-> ""]
MalformedToken == [kind |-> "malformed", user_id |-> 0, username |-> "", exp |-> 0, key |-> ""]

Jwt(uid, name, exp, key) ==
    [kind |-> "jwt", user_id |-> uid, username |-> name, exp |-> exp, key |-> key]

generate_token_unsaved(uid, name, now) ==
    Jwt(uid + 1, name, now + TOKEN_LIFETIME, ServerKey)

\* JwtService::generate_token: the claims signed at instant `now`
generate_token(uid, name, now) == Jwt(uid, name, now + TOKEN_LIFETIME, ServerKey)

verify_token_lookup(tok, now) ==
    IF /\ tok.kind = "jwt" /\ tok.key = ServerKey /\ ~(tok.exp < now - Leeway)
       /\ tok.user_id \in 1..Len(users)
    THEN [ok |-> TRUE, err |-> "", user_id |-> tok.user_id, username |-> tok.username]
    ELSE [ok |-> FALSE, err |-> "JwtError", user_id |-> 0, username |-> ""]

\* JwtService::verify_token: decode with Validation::default(); every failure
\* of decode becomes AppError::JwtError through AppError::from
verify_token(tok, now) ==
    IF tok.kind = "jwt" /\ tok.key = ServerKey /\ ~(tok.exp < now - Leeway)
    THEN [ok |-> TRUE, err |-> "", user_id |-> tok.user_id, username |-> tok.username]
    ELSE [ok |-> FALSE, err |-> "JwtError", user_id |-> 0, username |-> ""]

\* The tokens a caller can put on a request: none, garbage, a token the
\* server has issued and its owner kept, or claims signed with a key that is not the server's.
ForgedTokens ==
    {Jwt(uid, users[uid].username, Now + TOKEN_LIFETIME, OtherKey) : uid \in 1..Len(users)}

HeldTokens == {held[i] : i \in 1..Len(held)}

\* Every string that can be presented as a token, whether or not the
\* account it names is stored: none, garbage, and claims for any account
\* id and username issued at any instant, signed with either key.
TokenUniverse ==
    {AbsentToken, MalformedToken}
    \cup {Jwt(uid, name, Instant(c) + TOKEN_LIFETIME, key) :
             uid \in 1..Cardinality(Usernames), name \in Usernames,
             c \in 0..MaxClock, key \in {ServerKey, OtherKey}}

Tokens == {AbsentToken, MalformedToken} \cup HeldTokens \cup ForgedTokens

----------------------------------------------------------------------------
\* Authentication by the adapters.

\* HttpAuthentication::bearer(jwt_validator) followed by try_get_user_id:
\* a request without a bearer credential is answered 401 by the extractor,
\* a token that fails verification is answered 401 by jwt_validator.
HttpAuth(tok, now) ==
    IF tok.kind = "absent"
    THEN [ok |-> FALSE, status |-> "401", user_id |-> 0]
    ELSE LET v == verify_token(tok, now)
         IN  IF v.ok THEN [ok |-> TRUE, status |-> "", user_id |-> v.user_id]
             ELSE [ok |-> FALSE, status |-> "401", user_id |-> 0]

GrpcAuthOwnKey(tok, now) ==
    IF tok.kind = "absent"
    THEN [ok |-> FALSE, status |-> GrpcStatus("InvalidToken"), user_id |-> 0]
    ELSE LET v == verify_token([tok EXCEPT !.key = IF @ = ServerKey THEN OtherKey
                                                   ELSE ServerKey], now)
         IN  IF v.ok THEN [ok |-> TRUE, status |-> "", user_id |-> v.user_id]
             ELSE [ok |-> FALSE, status |-> GrpcStatus(v.err), user_id |-> 0]

\* GrpcService::get_user_id: no metadata entry is InvalidToken, a failed
\* verification propagates verify_token's error; both go through
\* From<AppError> for tonic::Status.
GrpcAuth(tok, now) ==
    IF tok.kind = "absent"
    THEN [ok |-> FALSE, status |-> GrpcStatus("InvalidToken"), user_id |-> 0]
    ELSE LET v == verify_token(tok, now)
         IN  IF v.ok THEN [ok |-> TRUE, status |-> "", user_id |-> v.user_id]
             ELSE [ok |-> FALSE, status |-> GrpcStatus(v.err), user_id |-> 0]

Auth(a, tok, now) == IF a = "http" THEN HttpAuth(tok, now) ELSE GrpcAuth(tok, now)

\* The operations no adapter authenticates: the HTTP routes outside the
\* resources wrapped with HttpAuthentication::bearer, the gRPC methods that
\* do not call get_user_id.
Public == {"register", "login", "get", "list"}

GuardAll(a, op, tok, now) == Auth(a, tok, now)

\* What the adapter does with the credential of a request for operation op.
Guard(a, op, tok, now) ==
    IF op \in Public THEN [ok |-> TRUE, status |-> "", user_id |-> 0]
    ELSE Auth(a, tok, now)

\* A request without credential.
Anonymous == {AbsentToken}

----------------------------------------------------------------------------
\* Credentials (argon2 in application/auth_service.rs): the stored blob holds
\* the salt and the digest of salt and password.

hash_password(pw, salt) == [salt |-> salt, digest |-> <<salt, pw>>]

\* Stored values that are not a PHC string: an empty column and a hash cut
\* short.  register never writes one; they come from outside the server.
MalformedHashes == {[salt |-> "", digest |-> <<>>],
                    [salt |-> "s1", digest |-> <<"s1">>]}

PasswordHash_new_lenient(blob) == TRUE

\* PasswordHash::new(&user.password_hash): Ok iff the stored string parses
PasswordHash_new(blob) == blob.salt # "" /\ Len(blob.digest) = 2

verify_password_any(pw, blob) == TRUE

\* Argon2::verify_password against the parsed stored hash
verify_password(pw, blob) == blob.digest = <<blob.salt, pw>>

----------------------------------------------------------------------------
\* Account store (data/user_repository.rs).

\* UserRepository::get_by_username: the rows with that username (none or one)
get_by_username(name) == {i \in 1..Len(users) : users[i].username = name}

\* Schema users(username unique, email unique), owned by the migrations: the
\* insert would break a constraint
UniqueViolation(name, email) ==
    \E i \in 1..Len(users) : users[i].username = name \/ users[i].email = email

save_user_blind(name, email, blob) ==
    [err |-> "",
     row |-> [id |-> Len(users) + 1, username |-> name, email |-> email,
              password_hash |-> blob]]

\* UserRepository::save_user: INSERT .. RETURNING; the database error with
\* code 23505 becomes UserAlreadyExists.  err = "" is Ok(row).
save_user(name, email, blob) ==
    IF UniqueViolation(name, email)
    THEN [err |-> "UserAlreadyExists",
          row |-> [id |-> 0, username |-> "", email |-> "", password_hash |-> blob]]
    ELSE [err |-> "",
          row |-> [id |-> Len(users) + 1, username |-> name, email |-> email,
                   password_hash |-> blob]]

----------------------------------------------------------------------------
\* Post store (data/post_repository.rs) and post use-case
\* (application/blog_service.rs).

NewPostSwapped(id, title, content, author, now) ==
    [id |-> id, title |-> content, content |-> title, author_id |-> author,
     created_at |-> now, updated_at |-> now]

\* PostRepository::create_post: the row INSERT .. RETURNING gives back
NewPost(id, title, content, author, now) ==
    [id |-> id, title |-> title, content |-> content, author_id |-> author,
     created_at |-> now, updated_at |-> now]

\* BlogService::get_post: "" is Ok(posts[id])
get_post(id) == IF id \in DOMAIN posts THEN "" ELSE "PostNotFound"

\* PostRepository::get_post: the row SELECT .. WHERE id = $1 returns
get_post_row(id) == posts[id]

check_owner_none(id, uid) == get_post(id)

\* BlogService::update_post / delete_post up to the store call: fetch the
\* post, compare its author with the caller.  "" lets the store call go on.
check_owner(id, uid) ==
    IF get_post(id) # "" THEN get_post(id)
    ELSE IF posts[id].author_id # uid THEN "Forbidden" ELSE ""

\* Authentication, then the use-case up to the ownership check: what
\* decides whether an update or delete reaches its store call.
Admit(a, tok, id, now) ==
    LET au == Auth(a, tok, now)
    IN  IF ~au.ok THEN [ok |-> FALSE, status |-> au.status, user_id |-> 0]
        ELSE LET e == check_owner(id, au.user_id)
             IN  IF e # ""
                 THEN [ok |-> FALSE, status |-> ErrorStatus(a, e), user_id |-> au.user_id]
                 ELSE [ok |-> TRUE, status |-> "", user_id |-> au.user_id]

RowMatchesAnyAuthor(id, author) == id \in DOMAIN posts

\* PostRepository::update_post: UPDATE .. WHERE id = $1 AND author_id = $4
\* RETURNING ..; fetch_one fails with RowNotFound when no row matched.
RowMatches(id, author) == id \in DOMAIN posts /\ posts[id].author_id = author

Without(id) == [i \in (DOMAIN posts) \ {id} |-> posts[i]]

update_post_restamp(id, author, title, content, now) ==
    IF RowMatches(id, author)
    THEN [posts EXCEPT ![id].title = title, ![id].content = content,
                       ![id].created_at = now, ![id].updated_at = now]
    ELSE posts

\* PostRepository::update_post: the table after the UPDATE
update_post(id, author, title, content, now) ==
    IF RowMatches(id, author)
    THEN [posts EXCEPT ![id].title = title, ![id].content = content,
                       ![id].updated_at = now]
    ELSE posts

delete_post_noop(id, author) == posts

\* PostRepository::delete_post: the table after the DELETE
delete_post(id, author) == IF RowMatches(id, author) THEN Without(id) ELSE posts

----------------------------------------------------------------------------
\* Listing (domain/post.rs, data/post_repository.rs).

\* GetPostsParams: serde defaults of the query string
default_limit == 10
default_offset == 0

unwrap_or_all(opt, default) ==
    IF opt = {} THEN Cardinality(DOMAIN posts) ELSE CHOOSE x \in opt : TRUE

\* params.limit.unwrap_or(10) / #[serde(default = ..)]
unwrap_or(opt, default) == IF opt = {} THEN default ELSE CHOOSE x \in opt : TRUE

\* The row ORDER BY created_at DESC puts first among the rows `ids`
Newest(ids, tb) ==
    CHOOSE i \in ids : \A j \in ids :
        \/ posts[j].created_at < posts[i].created_at
        \/ /\ posts[j].created_at = posts[i].created_at
           /\ IF tb = "first" THEN i <= j ELSE j <= i

RECURSIVE OrderByCreatedDesc(_, _)
\* SELECT .. FROM posts ORDER BY created_at DESC, over the rows `ids`
OrderByCreatedDesc(ids, tb) ==
    IF ids = {} THEN <<>>
    ELSE LET n == Newest(ids, tb)
         IN  <<posts[n]>> \o OrderByCreatedDesc(ids \ {n}, tb)

\* PostRepository::get_posts: .. LIMIT $1 OFFSET $2
get_posts(limit, offset, tb) ==
    LET all == OrderByCreatedDesc(DOMAIN posts, tb)
        to  == IF offset + limit < Len(all) THEN offset + limit ELSE Len(all)
    IN  SubSeq(all, offset + 1, to)

\* PostRepository::get_total_posts_count: SELECT COUNT(*) FROM posts
get_total_posts_count == Cardinality(DOMAIN posts)

\* The body of a list response: http_handlers::get_posts /
\* GrpcService::get_posts over BlogService::get_posts
ListResponse(lim, off, tb) ==
    LET limit  == unwrap_or(lim, default_limit)
        offset == unwrap_or(off, default_offset)
    IN  [posts |-> get_posts(limit, offset, tb), total |-> get_total_posts_count,
         limit |-> limit, offset |-> offset]

\* No list call has been made.
NoListing == [pc |-> "idle", adapter |-> "", limit |-> 0, offset |-> 0,
              page |-> <<>>, total |-> 0]

----------------------------------------------------------------------------
\* Client library (blog-client crate): BlogClient over an HTTP or a gRPC
\* transport.

\* The methods of BlogClient, by the name of the operation they ask for.
ClientOps == {"register", "login", "create", "get", "update", "delete", "list"}

\* The strings a caller may hand to set_token.
ClientTokens == {MalformedToken, generate_token(1, "alice", 0)}

NoRequest == [op |-> "", bearer |-> {}]

\* blog-cli before its first run
NoCommand == [cmd |-> "", grpc |-> FALSE, connected |-> FALSE, sent |-> FALSE,
              res |-> ""]
NoResult  == [op |-> "", res |-> ""]

\* BlogClient::get_token
get_token == clientToken

require_token_lenient ==
    IF get_token = {} THEN [ok |-> TRUE, err |-> "", bearer |-> {AbsentToken}]
    ELSE [ok |-> TRUE, err |-> "", bearer |-> get_token]

\* BlogClient::require_token: self.get_token().ok_or(TokenNotSet)
require_token ==
    IF get_token = {} THEN [ok |-> FALSE, err |-> "TokenNotSet", bearer |-> {}]
    ELSE [ok |-> TRUE, err |-> "", bearer |-> get_token]

\* The statuses the server's adapter a can answer a request for op with.
ServerStatuses(a, op) == {OkStatus(a, op)} \cup {ErrorStatus(a, e) : e \in AppError}

\* HttpClient: the match on response.status() of each method
HttpClientResult(op, st) ==
    CASE op = "register" /\ st = "201" -> "Ok"
      [] op = "register" /\ st = "409" -> "UserAlreadyExists"
      [] op = "login"    /\ st = "200" -> "Ok"
      [] op = "login"    /\ st = "401" -> "InvalidCredentials"
      [] op = "create"   /\ st = "201" -> "Ok"
      [] op = "create"   /\ st = "401" -> "InvalidToken"
      [] op = "get"      /\ st = "200" -> "Ok"
      [] op = "get"      /\ st = "404" -> "NotFound"
      [] op = "update"   /\ st = "200" -> "Ok"
      [] op = "update"   /\ st = "401" -> "InvalidToken"
      [] op = "update"   /\ st = "403" -> "Forbidden"
      [] op = "delete"   /\ st = "204" -> "Ok"
      [] op = "delete"   /\ st = "401" -> "InvalidToken"
      [] op = "delete"   /\ st = "403" -> "Forbidden"
      [] op = "list"     /\ st = "200" -> "Ok"
      [] OTHER                         -> "UnexpectedHttpResponse"

\* GrpcClient: `.await?` through impl From<tonic::Status> for BlogClientError
GrpcClientResult(op, st) ==
    CASE st = "OK"                -> "Ok"
      [] st = "ALREADY_EXISTS"    -> "UserAlreadyExists"
      [] st = "NOT_FOUND"         -> "NotFound"
      [] st = "UNAUTHENTICATED"   -> "InvalidToken"
      [] st = "PERMISSION_DENIED" -> "Forbidden"
      [] OTHER                    -> "UnexpectedGrpcResponse"

\* The domain errors the server's use-case for op returns (AuthService,
\* BlogService, and the token check of the adapters).
DomainErrors(op) ==
    CASE op = "register" -> {"UserAlreadyExists"}
      [] op = "login"    -> {"InvalidCredentials", "UserNotFound"}
      [] op = "create"   -> {"InvalidToken"}
      [] op = "get"      -> {"PostNotFound"}
      [] op = "update"   -> {"InvalidToken", "Forbidden", "PostNotFound"}
      [] op = "delete"   -> {"InvalidToken", "Forbidden", "PostNotFound"}
      [] OTHER           -> {}

\* ClientType (enum_dispatch): the result of the transport's method
ClientResult(a, op, st) ==
    IF a = "http" THEN HttpClientResult(op, st) ELSE GrpcClientResult(op, st)

----------------------------------------------------------------------------
\* Requests between two storage calls, and responses.

Req(a, op, uid, id, title, content) ==
    [adapter |-> a, op |-> op, uid |-> uid, id |-> id, title |-> title,
     content |-> content]

\* `last` holds the status of the last response; "" before the first one.
NoResp == ""

InFlightOn(a) == {r \in BagToSet(inflight) : r.adapter = a}

\* A listener takes new requests while it is in its accept loop.
Accepting(a) == IF a = "http" THEN httpL = "accepting" ELSE grpcL = "accepting"

----------------------------------------------------------------------------
\* Requests (Spec).  A handler runs without suspension up to its first
\* storage call, so authentication and that call are one step; update and
\* delete make a second storage call and are in flight in between.

\* register: http_handlers::register / GrpcService::register over
\* AuthService::register; the caller keeps the token of the response
Register(a, name, email, pw, salt) ==
    /\ Accepting(a)
    /\ LET r == save_user(name, email, hash_password(pw, salt))
       IN  IF r.err # ""
           THEN /\ last' = ErrorStatus(a, r.err)
                /\ UNCHANGED <<users, held>>
           ELSE /\ users' = Append(users, r.row)
                /\ held' = Append(held, generate_token(r.row.id, r.row.username, Now))
                /\ last' = OkStatus(a, "register")
    /\ accepted' = accepted \cup {a}
    /\ UNCHANGED <<posts, nextPostId, clock, inflight>>
    /\ UNCHANGED <<mainPc, httpL, grpcL, ctrlC, grpcSignal, httpStop, trigger, result, atCancel>>
    /\ UNCHANGED <<listing, clientVars, cliVars>>

\* login: http_handlers::login / GrpcService::login over AuthService::login
Login(a, name, pw) ==
    /\ Accepting(a)
    /\ LET found == get_by_username(name)
       IN  IF found = {}
           THEN /\ last' = ErrorStatus(a, "UserNotFound")
                /\ UNCHANGED held
           ELSE LET u == users[CHOOSE i \in found : TRUE]
                IN  IF ~PasswordHash_new(u.password_hash)
                    THEN /\ last' = ErrorStatus(a, "HashError")
                         /\ UNCHANGED held
                    ELSE IF ~verify_password(pw, u.password_hash)
                    THEN /\ last' = ErrorStatus(a, "InvalidCredentials")
                         /\ UNCHANGED held
                    ELSE /\ held' = [held EXCEPT
                                ![u.id] = generate_token(u.id, u.username, Now)]
                         /\ last' = OkStatus(a, "login")
    /\ accepted' = accepted \cup {a}
    /\ UNCHANGED <<users, posts, nextPostId, clock, inflight>>
    /\ UNCHANGED <<mainPc, httpL, grpcL, ctrlC, grpcSignal, httpStop, trigger, result, atCancel>>
    /\ UNCHANGED <<listing, clientVars, cliVars>>

\* An author_id a caller may write into the JSON body or the message of a
\* create request: CreatePostParams and CreatePostRequest have no such field
\* (serde skips unknown fields), so it never reaches the handler.
ClaimedAuthors == 0..Len(users)

create_author_from_body(user_id, claimed) == claimed

\* The author the create handlers hand to BlogService::create_post:
\* create_post(params.title, params.content, user_id)
create_author(user_id, claimed) == user_id

\* create: http_handlers::create_post / GrpcService::create_post over
\* BlogService::create_post and PostRepository::create_post
CreatePost(a, tok, title, content) ==
    /\ Accepting(a)
    /\ LET au == Auth(a, tok, Now)
       IN  IF ~au.ok
           THEN /\ last' = au.status
                /\ UNCHANGED <<posts, nextPostId>>
           ELSE /\ nextPostId <= MaxPosts
                /\ \E claimed \in ClaimedAuthors :
                     posts' = [i \in (DOMAIN posts) \cup {nextPostId} |->
                               IF i = nextPostId
                               THEN NewPost(nextPostId, title, content,
                                            create_author(au.user_id, claimed), Now)
                               ELSE posts[i]]
                /\ nextPostId' = nextPostId + 1
                /\ last' = OkStatus(a, "create")
    /\ accepted' = accepted \cup {a}
    /\ UNCHANGED <<users, clock, held, inflight>>
    /\ UNCHANGED <<mainPc, httpL, grpcL, ctrlC, grpcSignal, httpStop, trigger, result, atCancel>>
    /\ UNCHANGED <<listing, clientVars, cliVars>>

\* update / delete, first part: authentication by the adapter, then
\* BlogService::update_post / delete_post up to the ownership check.
BeginMutation(a, op, tok, id, title, content) ==
    /\ Accepting(a)
    /\ LET ad == Admit(a, tok, id, Now)
       IN  IF ~ad.ok
           THEN /\ last' = ad.status
                /\ UNCHANGED inflight
           ELSE /\ BagCardinality(inflight) < MaxInFlight
                /\ inflight' = inflight (+)
                       SetToBag({Req(a, op, ad.user_id, id, title, content)})
                /\ UNCHANGED last
    /\ accepted' = accepted \cup {a}
    /\ UNCHANGED <<users, posts, nextPostId, clock, held>>
    /\ UNCHANGED <<mainPc, httpL, grpcL, ctrlC, grpcSignal, httpStop, trigger, result, atCancel>>
    /\ UNCHANGED <<listing, clientVars, cliVars>>

FinishUpdateCrash(r) ==
    /\ r.op = "update"
    /\ posts' = update_post(r.id, r.uid, r.title, r.content, Now)
    /\ last' = IF RowMatches(r.id, r.uid)
               THEN OkStatus(r.adapter, "update")
               ELSE ErrorStatus(r.adapter, "SqlxError")
    /\ inflight' = inflight (-) SetToBag({r})
    /\ IF RowMatches(r.id, r.uid)
       THEN UNCHANGED <<httpL, grpcL>>
       ELSE IF r.adapter = "http" THEN httpL' = "failed" /\ UNCHANGED grpcL
            ELSE grpcL' = "failed" /\ UNCHANGED httpL
    /\ UNCHANGED <<users, nextPostId, clock, held>>
    /\ UNCHANGED <<mainPc, ctrlC, grpcSignal, httpStop, trigger, result, accepted, atCancel>>
    /\ UNCHANGED <<listing, clientVars, cliVars>>

\* update, second part: PostRepository::update_post and the response
FinishUpdate(r) ==
    /\ r.op = "update"
    /\ posts' = update_post(r.id, r.uid, r.title, r.content, Now)
    /\ last' = IF RowMatches(r.id, r.uid)
               THEN OkStatus(r.adapter, "update")
               ELSE ErrorStatus(r.adapter, "SqlxError")
    /\ inflight' = inflight (-) SetToBag({r})
    /\ UNCHANGED <<users, nextPostId, clock, held>>
    /\ UNCHANGED orchVars
    /\ UNCHANGED <<listing, clientVars, cliVars>>

\* delete, second part: PostRepository::delete_post and the response;
\* execute() is Ok whatever the number of rows deleted
FinishDelete(r) ==
    /\ r.op = "delete"
    /\ posts' = delete_post(r.id, r.uid)
    /\ last' = OkStatus(r.adapter, "delete")
    /\ inflight' = inflight (-) SetToBag({r})
    /\ UNCHANGED <<users, nextPostId, clock, held>>
    /\ UNCHANGED orchVars
    /\ UNCHANGED <<listing, clientVars, cliVars>>

\* get: http_handlers::get_post / GrpcService::get_post over
\* BlogService::get_post; no authentication
GetPost(a, tok, id) ==
    /\ Accepting(a)
    /\ last' = IF ~Guard(a, "get", tok, Now).ok THEN Guard(a, "get", tok, Now).status
               ELSE IF get_post(id) = "" THEN OkStatus(a, "get")
               ELSE ErrorStatus(a, get_post(id))
    /\ accepted' = accepted \cup {a}
    /\ UNCHANGED <<users, posts, nextPostId, clock, held, inflight>>
    /\ UNCHANGED <<mainPc, httpL, grpcL, ctrlC, grpcSignal, httpStop, trigger, result, atCancel>>
    /\ UNCHANGED <<listing, clientVars, cliVars>>

\* list: http_handlers::get_posts / GrpcService::get_posts; the response
\* body is ListResponse(lim, off, tb) of the current store
GetPosts(a, tok, lim, off, tb) ==
    /\ Accepting(a)
    /\ last' = IF ~Guard(a, "list", tok, Now).ok THEN Guard(a, "list", tok, Now).status
               ELSE OkStatus(a, "list")
    /\ accepted' = accepted \cup {a}
    /\ UNCHANGED <<users, posts, nextPostId, clock, held, inflight>>
    /\ UNCHANGED <<mainPc, httpL, grpcL, ctrlC, grpcSignal, httpStop, trigger, result, atCancel>>
    /\ UNCHANGED <<listing, clientVars, cliVars>>

\* Time passes.
Tick ==
    /\ clock < MaxClock
    /\ clock' = clock + 1
    /\ UNCHANGED <<users, posts, nextPostId, held, inflight, last>>
    /\ UNCHANGED orchVars
    /\ UNCHANGED <<listing, clientVars, cliVars>>

\* Spec starts with an empty database and the orchestrator in select!, both
\* listeners accepting and having served requests.
Init ==
    /\ users = <<>>
    /\ posts = <<>>
    /\ nextPostId = 1
    /\ clock = 0
    /\ held = <<>>
    /\ inflight = EmptyBag
    /\ last = NoResp
    /\ mainPc = "select"
    /\ httpL = "accepting"
    /\ grpcL = "accepting"
    /\ ctrlC = FALSE
    /\ grpcSignal = FALSE
    /\ httpStop = FALSE
    /\ trigger = "none"
    /\ result = "none"
    /\ accepted = Adapters
    /\ atCancel = {}
    /\ clientInner = "http"
    /\ clientToken = {}
    /\ clientSent = 0
    /\ clientWire = NoRequest
    /\ clientResult = NoResult
    /\ listing = NoListing
    /\ tokenFile = {}
    /\ cliLast = NoCommand

Next ==
    \/ \E a \in Adapters, acc \in NewAccounts, salt \in Salts :
          Register(a, acc[1], acc[2], acc[3], salt)
    \/ \E a \in Adapters, name \in Usernames, pw \in Passwords : Login(a, name, pw)
    \/ \E a \in Adapters, tok \in Tokens, b \in Bodies : CreatePost(a, tok, b[1], b[2])
    \/ \E a \in Adapters, tok \in Tokens, id \in PostIds, b \in Bodies :
          BeginMutation(a, "update", tok, id, b[1], b[2])
    \/ \E a \in Adapters, tok \in Tokens, id \in PostIds :
          BeginMutation(a, "delete", tok, id, "", "")
    \/ \E r \in BagToSet(inflight) : FinishUpdate(r)
    \/ \E r \in BagToSet(inflight) : FinishDelete(r)
    \/ \E a \in Adapters, tok \in Anonymous, id \in 1..nextPostId : GetPost(a, tok, id)
    \/ \E a \in Adapters, tok \in Anonymous, lim \in Limits, off \in Offsets,
          tb \in TieBreaks :
          GetPosts(a, tok, lim, off, tb)
    \/ Tick

Spec == Init /\ [][Next]_vars

----------------------------------------------------------------------------
\* Process orchestrator (main.rs) and the two listener tasks (SpecOrch).
\*
\* mainPc:  "setup" -> "bind_http" -> "spawn_grpc" -> "select"
\*          -> "cc_send" -> "cc_stop" -> "cc_stop_wait" -> "cc_join" -> "done"
\* httpL:   "none", "accepting", "draining", "stopped", "failed", "bind_failed"
\* grpcL:   "none", "binding", "accepting", "draining", "stopped", "failed",
\*          "bind_failed"
\* The process lives until main returns (mainPc = "done").

Finished == {"stopped", "failed", "bind_failed"}

ExitedWithError == {"failed", "bind_failed"}

Alive == mainPc # "done"

\* Number of requests in flight on listener a.
Load(a) == BagCardinality([r \in InFlightOn(a) |-> inflight[r]])

\* The bag without the requests of listener a (they are dropped with it).
Dropping(a) == [r \in BagToSet(inflight) \ InFlightOn(a) |-> inflight[r]]

\* main, lines 47-65: environment, database pool, migrations, services;
\* every failure leaves main through `?`
Construct(ok) ==
    /\ mainPc = "setup"
    /\ IF ok THEN mainPc' = "bind_http" /\ UNCHANGED result
             ELSE mainPc' = "done" /\ result' = "Err"
    /\ UNCHANGED <<users, posts, nextPostId, clock, held, inflight, last>>
    /\ UNCHANGED <<httpL, grpcL, ctrlC, grpcSignal, httpStop, trigger, accepted, atCancel>>
    /\ UNCHANGED <<listing, clientVars, cliVars>>

\* main, lines 69-83 with setup_http_server: bind, run, spawn.  A bind error
\* leaves main through `?`; otherwise the server accepts from here on.
SetupHttpServer(ok) ==
    /\ mainPc = "bind_http"
    /\ IF ok THEN /\ httpL' = "accepting"
                  /\ mainPc' = "spawn_grpc"
                  /\ UNCHANGED result
             ELSE /\ httpL' = "bind_failed"
                  /\ mainPc' = "done"
                  /\ result' = "Err"
    /\ UNCHANGED <<users, posts, nextPostId, clock, held, inflight, last>>
    /\ UNCHANGED <<grpcL, ctrlC, grpcSignal, httpStop, trigger, accepted, atCancel>>
    /\ UNCHANGED <<listing, clientVars, cliVars>>

\* main, lines 85-104: the oneshot channel and the spawned gRPC task
SpawnGrpc ==
    /\ mainPc = "spawn_grpc"
    /\ grpcL' = "binding"
    /\ mainPc' = "select"
    /\ UNCHANGED <<users, posts, nextPostId, clock, held, inflight, last>>
    /\ UNCHANGED <<httpL, ctrlC, grpcSignal, httpStop, trigger, result, accepted, atCancel>>
    /\ UNCHANGED <<listing, clientVars, cliVars>>

\* run_grpc_server: serve_with_shutdown binds inside the task; a bind error
\* ends the task with Err
GrpcBind(ok) ==
    /\ Alive
    /\ grpcL = "binding"
    /\ grpcL' = IF ok THEN "accepting" ELSE "bind_failed"
    /\ UNCHANGED <<users, posts, nextPostId, clock, held, inflight, last>>
    /\ UNCHANGED <<mainPc, httpL, ctrlC, grpcSignal, httpStop, trigger, result, accepted, atCancel>>
    /\ UNCHANGED <<listing, clientVars, cliVars>>

\* A listener accepts a request (any handler), which stays in flight.
Serve(a) ==
    /\ Alive
    /\ Accepting(a)
    /\ BagCardinality(inflight) < MaxInFlight
    /\ inflight' = inflight (+) SetToBag({Req(a, "any", 0, 0, "", "")})
    /\ accepted' = accepted \cup {a}
    /\ UNCHANGED <<users, posts, nextPostId, clock, held, last>>
    /\ UNCHANGED <<mainPc, httpL, grpcL, ctrlC, grpcSignal, httpStop, trigger, result, atCancel>>
    /\ UNCHANGED <<listing, clientVars, cliVars>>

\* A request in flight is answered.
Respond(r) ==
    /\ Alive
    /\ r.op = "any"
    /\ inflight' = inflight (-) SetToBag({r})
    /\ UNCHANGED <<users, posts, nextPostId, clock, held, last>>
    /\ UNCHANGED orchVars
    /\ UNCHANGED <<listing, clientVars, cliVars>>

\* The user presses Ctrl+C while main waits in select!.
CtrlC ==
    /\ mainPc = "select"
    /\ ~ctrlC
    /\ ctrlC' = TRUE
    /\ UNCHANGED <<users, posts, nextPostId, clock, held, inflight, last>>
    /\ UNCHANGED <<mainPc, httpL, grpcL, grpcSignal, httpStop, trigger, result, accepted, atCancel>>
    /\ UNCHANGED <<listing, clientVars, cliVars>>

\* select!, branch signal::ctrl_c() (line 107)
SelectCtrlC ==
    /\ mainPc = "select"
    /\ ctrlC
    /\ trigger' = "ctrl_c"
    /\ mainPc' = "cc_send"
    /\ atCancel' = {a \in Adapters : InFlightOn(a) # {}}
    /\ UNCHANGED <<users, posts, nextPostId, clock, held, inflight, last>>
    /\ UNCHANGED <<httpL, grpcL, ctrlC, grpcSignal, httpStop, result, accepted>>
    /\ UNCHANGED <<listing, clientVars, cliVars>>

\* line 110: grpc_shutdown_tx.send(())
SendGrpcShutdown ==
    /\ mainPc = "cc_send"
    /\ grpcSignal' = TRUE
    /\ mainPc' = "cc_stop"
    /\ UNCHANGED <<users, posts, nextPostId, clock, held, inflight, last>>
    /\ UNCHANGED <<httpL, grpcL, ctrlC, httpStop, trigger, result, accepted, atCancel>>
    /\ UNCHANGED <<listing, clientVars, cliVars>>

\* line 112: http_server_handle.stop(true) is called ...
HttpStopCall ==
    /\ mainPc = "cc_stop"
    /\ httpStop' = TRUE
    /\ mainPc' = "cc_stop_wait"
    /\ UNCHANGED <<users, posts, nextPostId, clock, held, inflight, last>>
    /\ UNCHANGED <<httpL, grpcL, ctrlC, grpcSignal, trigger, result, accepted, atCancel>>
    /\ UNCHANGED <<listing, clientVars, cliVars>>

HttpStopReturnEarly ==
    /\ mainPc = "cc_stop_wait"
    /\ mainPc' = "cc_join"
    /\ UNCHANGED <<users, posts, nextPostId, clock, held, inflight, last>>
    /\ UNCHANGED <<httpL, grpcL, ctrlC, grpcSignal, httpStop, trigger, result, accepted, atCancel>>
    /\ UNCHANGED <<listing, clientVars, cliVars>>

\* ... and its future resolves when the server has stopped
HttpStopReturn ==
    /\ mainPc = "cc_stop_wait"
    /\ httpL \in Finished
    /\ mainPc' = "cc_join"
    /\ UNCHANGED <<users, posts, nextPostId, clock, held, inflight, last>>
    /\ UNCHANGED <<httpL, grpcL, ctrlC, grpcSignal, httpStop, trigger, result, accepted, atCancel>>
    /\ UNCHANGED <<listing, clientVars, cliVars>>

JoinHttpOnly ==
    /\ mainPc = "cc_join"
    /\ httpL \in Finished
    /\ mainPc' = "done"
    /\ result' = "Ok"
    /\ UNCHANGED <<users, posts, nextPostId, clock, held, inflight, last>>
    /\ UNCHANGED <<httpL, grpcL, ctrlC, grpcSignal, httpStop, trigger, accepted, atCancel>>
    /\ UNCHANGED <<listing, clientVars, cliVars>>

\* lines 114-122 and 132-134: join!(http_task, grpc_task), warnings for a
\* JoinError, then Ok(())
JoinBoth ==
    /\ mainPc = "cc_join"
    /\ httpL \in Finished
    /\ grpcL \in Finished
    /\ mainPc' = "done"
    /\ result' = "Ok"
    /\ UNCHANGED <<users, posts, nextPostId, clock, held, inflight, last>>
    /\ UNCHANGED <<httpL, grpcL, ctrlC, grpcSignal, httpStop, trigger, accepted, atCancel>>
    /\ UNCHANGED <<listing, clientVars, cliVars>>

\* select!, branch &mut http_task (lines 124-126), then Ok(())
SelectHttpTask ==
    /\ mainPc = "select"
    /\ httpL \in Finished
    /\ trigger' = "http_task"
    /\ mainPc' = "done"
    /\ result' = "Ok"
    /\ UNCHANGED <<users, posts, nextPostId, clock, held, inflight, last>>
    /\ UNCHANGED <<httpL, grpcL, ctrlC, grpcSignal, httpStop, accepted, atCancel>>
    /\ UNCHANGED <<listing, clientVars, cliVars>>

\* select!, branch &mut grpc_task (lines 127-129), then Ok(())
SelectGrpcTask ==
    /\ mainPc = "select"
    /\ grpcL \in Finished
    /\ trigger' = "grpc_task"
    /\ mainPc' = "done"
    /\ result' = "Ok"
    /\ UNCHANGED <<users, posts, nextPostId, clock, held, inflight, last>>
    /\ UNCHANGED <<httpL, grpcL, ctrlC, grpcSignal, httpStop, accepted, atCancel>>
    /\ UNCHANGED <<listing, clientVars, cliVars>>

\* The HTTP server takes the stop command: it leaves its accept loop.
HttpObserveStop ==
    /\ Alive
    /\ httpL = "accepting"
    /\ httpStop
    /\ httpL' = "draining"
    /\ UNCHANGED <<users, posts, nextPostId, clock, held, inflight, last>>
    /\ UNCHANGED <<mainPc, grpcL, ctrlC, grpcSignal, httpStop, trigger, result, accepted, atCancel>>
    /\ UNCHANGED <<listing, clientVars, cliVars>>

\* graceful stop: the server task ends when no request is in flight, or when
\* the shutdown timeout has elapsed, abandoning the requests still in flight
HttpDrained(timeout) ==
    /\ Alive
    /\ httpL = "draining"
    /\ timeout = (InFlightOn("http") # {})
    /\ httpL' = "stopped"
    /\ inflight' = Dropping("http")
    /\ UNCHANGED <<users, posts, nextPostId, clock, held, last>>
    /\ UNCHANGED <<mainPc, grpcL, ctrlC, grpcSignal, httpStop, trigger, result, accepted, atCancel>>
    /\ UNCHANGED <<listing, clientVars, cliVars>>

\* The HTTP server task ends without having been asked to.
HttpTaskExits(err) ==
    /\ Alive
    /\ httpL = "accepting"
    /\ httpL' = IF err THEN "failed" ELSE "stopped"
    /\ inflight' = Dropping("http")
    /\ UNCHANGED <<users, posts, nextPostId, clock, held, last>>
    /\ UNCHANGED <<mainPc, grpcL, ctrlC, grpcSignal, httpStop, trigger, result, accepted, atCancel>>
    /\ UNCHANGED <<listing, clientVars, cliVars>>

\* serve_with_shutdown: the shutdown future resolves, the server leaves its
\* accept loop
GrpcObserveShutdown ==
    /\ Alive
    /\ grpcL = "accepting"
    /\ grpcSignal
    /\ grpcL' = "draining"
    /\ UNCHANGED <<users, posts, nextPostId, clock, held, inflight, last>>
    /\ UNCHANGED <<mainPc, httpL, ctrlC, grpcSignal, httpStop, trigger, result, accepted, atCancel>>
    /\ UNCHANGED <<listing, clientVars, cliVars>>

\* ... and the task returns Ok(()) when no request is in flight
GrpcDrained ==
    /\ Alive
    /\ grpcL = "draining"
    /\ InFlightOn("grpc") = {}
    /\ grpcL' = "stopped"
    /\ UNCHANGED <<users, posts, nextPostId, clock, held, inflight, last>>
    /\ UNCHANGED <<mainPc, httpL, ctrlC, grpcSignal, httpStop, trigger, result, accepted, atCancel>>
    /\ UNCHANGED <<listing, clientVars, cliVars>>

\* serve_with_shutdown returns a transport error: the task ends with Err
GrpcTaskFails ==
    /\ Alive
    /\ grpcL = "accepting"
    /\ grpcL' = "failed"
    /\ inflight' = Dropping("grpc")
    /\ UNCHANGED <<users, posts, nextPostId, clock, held, last>>
    /\ UNCHANGED <<mainPc, httpL, ctrlC, grpcSignal, httpStop, trigger, result, accepted, atCancel>>
    /\ UNCHANGED <<listing, clientVars, cliVars>>

InitOrch ==
    /\ users = <<>>
    /\ posts = <<>>
    /\ nextPostId = 1
    /\ clock = 0
    /\ held = <<>>
    /\ inflight = EmptyBag
    /\ last = NoResp
    /\ mainPc = "setup"
    /\ httpL = "none"
    /\ grpcL = "none"
    /\ ctrlC = FALSE
    /\ grpcSignal = FALSE
    /\ httpStop = FALSE
    /\ trigger = "none"
    /\ result = "none"
    /\ accepted = {}
    /\ atCancel = {}
    /\ clientInner = "http"
    /\ clientToken = {}
    /\ clientSent = 0
    /\ clientWire = NoRequest
    /\ clientResult = NoResult
    /\ listing = NoListing
    /\ tokenFile = {}
    /\ cliLast = NoCommand

NextOrch ==
    \/ \E ok \in BOOLEAN : Construct(ok)
    \/ \E ok \in BOOLEAN : SetupHttpServer(ok)
    \/ SpawnGrpc
    \/ \E ok \in BOOLEAN : GrpcBind(ok)
    \/ \E a \in Adapters : Serve(a)
    \/ \E r \in BagToSet(inflight) : Respond(r)
    \/ CtrlC
    \/ SelectCtrlC
    \/ SendGrpcShutdown
    \/ HttpStopCall
    \/ HttpStopReturn
    \/ JoinBoth
    \/ SelectHttpTask
    \/ SelectGrpcTask
    \/ HttpObserveStop
    \/ \E timeout \in BOOLEAN : HttpDrained(timeout)
    \/ \E err \in BOOLEAN : HttpTaskExits(err)
    \/ GrpcObserveShutdown
    \/ GrpcDrained
    \/ GrpcTaskFails

SpecOrch == InitOrch /\ [][NextOrch]_vars

\* What the runtime guarantees once started: main and the two listener tasks
\* are polled whenever they can move, and the HTTP server's shutdown timer
\* runs out.  Nothing obliges a handler to answer (Respond), a client to send
\* a request (Serve) or the user to press Ctrl+C.
OrchFairness ==
    /\ WF_vars(\E ok \in BOOLEAN : GrpcBind(ok))
    /\ WF_vars(SelectCtrlC)
    /\ WF_vars(SendGrpcShutdown)
    /\ WF_vars(HttpStopCall)
    /\ WF_vars(HttpStopReturn)
    /\ WF_vars(JoinBoth)
    /\ WF_vars(HttpObserveStop)
    /\ WF_vars(\E timeout \in BOOLEAN : HttpDrained(timeout))
    /\ WF_vars(GrpcObserveShutdown)
    /\ WF_vars(GrpcDrained)

SpecOrchFair == InitOrch /\ [][NextOrch]_vars /\ OrchFairness

----------------------------------------------------------------------------
\* Logins against a database that already holds an account (SpecCred): the
\* password_hash column of that row is what register wrote, or a value that
\* is not a PHC string.

StoredHashes == {hash_password("pw1", "s1")} \cup MalformedHashes

InitCred ==
    /\ \E blob \in StoredHashes :
           users = <<[id |-> 1, username |-> "alice", email |-> "a@x.com",
                      password_hash |-> blob]>>
    /\ posts = <<>>
    /\ nextPostId = 1
    /\ clock = 0
    /\ held = <<AbsentToken>>
    /\ inflight = EmptyBag
    /\ last = NoResp
    /\ mainPc = "select"
    /\ httpL = "accepting"
    /\ grpcL = "accepting"
    /\ ctrlC = FALSE
    /\ grpcSignal = FALSE
    /\ httpStop = FALSE
    /\ trigger = "none"
    /\ result = "none"
    /\ accepted = Adapters
    /\ atCancel = {}
    /\ clientInner = "http"
    /\ clientToken = {}
    /\ clientSent = 0
    /\ clientWire = NoRequest
    /\ clientResult = NoResult
    /\ listing = NoListing
    /\ tokenFile = {}
    /\ cliLast = NoCommand

\* The fallible calls of AuthService::register, in the order they are made.
RegisterFaults == {"hash_password", "save_user", "checked_add_signed", "encode"}

\* AppError of a failed call: From<argon2::password_hash::Error>,
\* From<sqlx::Error>, ok_or(InvalidDatetime), From<jsonwebtoken::errors::Error>
FaultError(fault) ==
    CASE fault = "hash_password"      -> "HashError"
      [] fault = "save_user"          -> "SqlxError"
      [] fault = "checked_add_signed" -> "InvalidDatetime"
      [] fault = "encode"             -> "JwtError"

\* register when one of its calls returns Err: `?` leaves the use-case at
\* that call.  generate_token is called after save_user has returned the
\* inserted row, and nothing removes the row when it fails.
RegisterFault(a, name, email, pw, salt, fault) ==
    /\ Accepting(a)
    /\ LET r == save_user(name, email, hash_password(pw, salt))
       IN  IF fault \in {"hash_password", "save_user"}
           THEN /\ last' = ErrorStatus(a, FaultError(fault))
                /\ UNCHANGED <<users, held>>
           ELSE IF r.err # ""
           THEN /\ last' = ErrorStatus(a, r.err)
                /\ UNCHANGED <<users, held>>
           ELSE /\ users' = Append(users, r.row)
                /\ held' = Append(held, AbsentToken)
                /\ last' = ErrorStatus(a, FaultError(fault))
    /\ accepted' = accepted \cup {a}
    /\ UNCHANGED <<posts, nextPostId, clock, inflight>>
    /\ UNCHANGED <<mainPc, httpL, grpcL, ctrlC, grpcSignal, httpStop, trigger, result, atCancel>>
    /\ UNCHANGED <<listing, clientVars, cliVars>>

NextCred ==
    \/ \E a \in Adapters, acc \in NewAccounts, salt \in Salts, fault \in RegisterFaults :
          RegisterFault(a, acc[1], acc[2], acc[3], salt, fault)
    \/ \E a \in Adapters, acc \in NewAccounts, salt \in Salts :
          Register(a, acc[1], acc[2], acc[3], salt)
    \/ \E a \in Adapters, name \in Usernames, pw \in Passwords : Login(a, name, pw)
    \/ Tick

SpecCred == InitCred /\ [][NextCred]_vars

----------------------------------------------------------------------------
\* Listing over larger stores (SpecList): one account, n posts created one
\* after the other, post i at second i, or two neighbours within the same
\* second; list requests arrive through both adapters.

ListStore(n, k) ==
    [i \in 1..n |->
        NewPost(i, "T1", "C1", 1, IF k > 0 /\ i = k + 1 THEN k ELSE i)]

InitList ==
    /\ \E n \in 0..MaxListed, k \in 0..MaxListed :
           /\ k < n \/ k = 0
           /\ posts = ListStore(n, k)
           /\ nextPostId = n + 1
    /\ users = <<[id |-> 1, username |-> "alice", email |-> "a@x.com",
                   password_hash |-> hash_password("pw1", "s1")]>>
    /\ held = <<generate_token(1, "alice", 0)>>
    /\ clock \in 0..MaxClock
    /\ inflight = EmptyBag
    /\ last = NoResp
    /\ mainPc = "select"
    /\ httpL = "accepting"
    /\ grpcL = "accepting"
    /\ ctrlC = FALSE
    /\ grpcSignal = FALSE
    /\ httpStop = FALSE
    /\ trigger = "none"
    /\ result = "none"
    /\ accepted = Adapters
    /\ atCancel = {}
    /\ clientInner = "http"
    /\ clientToken = {}
    /\ clientSent = 0
    /\ clientWire = NoRequest
    /\ clientResult = NoResult
    /\ listing = NoListing
    /\ tokenFile = {}
    /\ cliLast = NoCommand

NextList ==
    \/ \E a \in Adapters, tok \in Tokens, lim \in Limits, off \in Offsets,
          tb \in TieBreaks :
          GetPosts(a, tok, lim, off, tb)
    \/ \E a \in Adapters, tok \in Tokens, id \in {1, nextPostId} : GetPost(a, tok, id)

SpecList == InitList /\ [][NextList]_vars

----------------------------------------------------------------------------
\* A list call next to creates and deletes (SpecPage).  BlogService::get_posts
\* awaits PostRepository::get_posts and then get_total_posts_count: two
\* statements sent to the pool one after the other, outside any transaction.

MaxPaged == 2

\* list, first read: the page
BeginList(a, lim, off, tb) ==
    /\ Accepting(a)
    /\ listing.pc # "counting"
    /\ LET limit  == unwrap_or(lim, default_limit)
           offset == unwrap_or(off, default_offset)
       IN  listing' = [pc |-> "counting", adapter |-> a, limit |-> limit,
                       offset |-> offset, page |-> get_posts(limit, offset, tb),
                       total |-> 0]
    /\ accepted' = accepted \cup {a}
    /\ UNCHANGED <<users, posts, nextPostId, clock, held, inflight, last>>
    /\ UNCHANGED <<mainPc, httpL, grpcL, ctrlC, grpcSignal, httpStop, trigger, result, atCancel>>
    /\ UNCHANGED <<clientVars, cliVars>>

\* list, second read: the count, then the response
FinishList ==
    /\ listing.pc = "counting"
    /\ listing' = [listing EXCEPT !.pc = "done", !.total = get_total_posts_count]
    /\ last' = OkStatus(listing.adapter, "list")
    /\ UNCHANGED <<users, posts, nextPostId, clock, held, inflight>>
    /\ UNCHANGED orchVars
    /\ UNCHANGED <<clientVars, cliVars>>

InitPage ==
    /\ \E n \in 0..MaxPaged :
           /\ posts = ListStore(n, 0)
           /\ nextPostId = n + 1
    /\ users = <<[id |-> 1, username |-> "alice", email |-> "a@x.com",
                   password_hash |-> hash_password("pw1", "s1")]>>
    /\ held = <<generate_token(1, "alice", 0)>>
    /\ clock = 0
    /\ inflight = EmptyBag
    /\ last = NoResp
    /\ mainPc = "select"
    /\ httpL = "accepting"
    /\ grpcL = "accepting"
    /\ ctrlC = FALSE
    /\ grpcSignal = FALSE
    /\ httpStop = FALSE
    /\ trigger = "none"
    /\ result = "none"
    /\ accepted = Adapters
    /\ atCancel = {}
    /\ clientInner = "http"
    /\ clientToken = {}
    /\ clientSent = 0
    /\ clientWire = NoRequest
    /\ clientResult = NoResult
    /\ listing = NoListing
    /\ tokenFile = {}
    /\ cliLast = NoCommand

NextPage ==
    \/ \E a \in Adapters, lim \in Limits, off \in Offsets, tb \in TieBreaks :
          BeginList(a, lim, off, tb)
    \/ FinishList
    \/ \E a \in Adapters, tok \in HeldTokens, b \in Bodies : CreatePost(a, tok, b[1], b[2])
    \/ \E a \in Adapters, tok \in HeldTokens, id \in 1..MaxPaged :
          BeginMutation(a, "delete", tok, id, "", "")
    \/ \E r \in BagToSet(inflight) : FinishDelete(r)

SpecPage == InitPage /\ [][NextPage]_vars

----------------------------------------------------------------------------
\* Calls on a BlogClient (SpecClient).  The server is the environment: it
\* answers a request with one of the statuses its adapter can send.

\* self.inner.<op>(..).await: the request goes on the wire with the given
\* bearer credential and the transport turns the answer into a result.
Delegate(op, bearer) ==
    /\ clientSent < MaxSent
    /\ clientSent' = clientSent + 1
    /\ clientWire' = [op |-> op, bearer |-> bearer]
    /\ \E st \in ServerStatuses(clientInner, op) :
          clientResult' = [op |-> op, res |-> ClientResult(clientInner, op, st)]
    /\ UNCHANGED <<clientInner, clientToken>>
    /\ UNCHANGED <<serverVars, cliVars>>

\* `self.require_token()?` returned the error: nothing is sent.
ReturnErr(op, err) ==
    /\ clientResult' = [op |-> op, res |-> err]
    /\ UNCHANGED <<clientInner, clientToken, clientSent, clientWire>>
    /\ UNCHANGED <<serverVars, cliVars>>

\* BlogClient::set_token
set_token(tok) ==
    /\ clientToken' = {tok}
    /\ UNCHANGED <<clientInner, clientSent, clientWire, clientResult>>
    /\ UNCHANGED <<serverVars, cliVars>>

\* BlogClient::register
BlogClient_register == Delegate("register", {})

\* BlogClient::login
BlogClient_login == Delegate("login", {})

\* BlogClient::create_post
BlogClient_create_post ==
    IF require_token.ok THEN Delegate("create", require_token.bearer)
    ELSE ReturnErr("create", require_token.err)

\* BlogClient::get_post
BlogClient_get_post == Delegate("get", {})

\* BlogClient::update_post
BlogClient_update_post ==
    IF require_token.ok THEN Delegate("update", require_token.bearer)
    ELSE ReturnErr("update", require_token.err)

\* BlogClient::delete_post
BlogClient_delete_post ==
    IF require_token.ok THEN Delegate("delete", require_token.bearer)
    ELSE ReturnErr("delete", require_token.err)

\* BlogClient::get_posts
BlogClient_get_posts == Delegate("list", {})

\* BlogClient::new(transport): inner is the transport's client, token is None
InitClient ==
    /\ users = <<>>
    /\ posts = <<>>
    /\ nextPostId = 1
    /\ clock = 0
    /\ held = <<>>
    /\ inflight = EmptyBag
    /\ last = NoResp
    /\ mainPc = "select"
    /\ httpL = "accepting"
    /\ grpcL = "accepting"
    /\ ctrlC = FALSE
    /\ grpcSignal = FALSE
    /\ httpStop = FALSE
    /\ trigger = "none"
    /\ result = "none"
    /\ accepted = {}
    /\ atCancel = {}
    /\ clientInner \in Adapters
    /\ clientToken = {}
    /\ clientSent = 0
    /\ clientWire = NoRequest
    /\ clientResult = NoResult
    /\ listing = NoListing
    /\ tokenFile = {}
    /\ cliLast = NoCommand

NextClient ==
    \/ \E tok \in ClientTokens : set_token(tok)
    \/ BlogClient_register
    \/ BlogClient_login
    \/ BlogClient_create_post
    \/ BlogClient_get_post
    \/ BlogClient_update_post
    \/ BlogClient_delete_post
    \/ BlogClient_get_posts

SpecClient == InitClient /\ [][NextClient]_vars

----------------------------------------------------------------------------
\* The command line tool (SpecCli, blog-cli/src/main.rs).  One step is one
\* run of the program.  The server is the environment: it can be reached or
\* not, and answers a request with one of the statuses its adapter can send
\* and, on a successful register or login, with a token.

\* enum Command
CliCommands == {"register", "login", "logout", "create", "get", "update",
                "delete", "list"}

\* The tokens a server hands out in a register or login response.
IssuedTokens == {generate_token(1, "alice", 0), generate_token(2, "bob", 0)}

\* The statuses a run of command cmd can be answered with.
CliStatuses(a, cmd) == IF cmd = "logout" THEN {""} ELSE ServerStatuses(a, cmd)

\* get_transport: --grpc selects Transport::Grpc, else Transport::Http
get_transport(grpc) == IF grpc THEN "grpc" ELSE "http"

\* load_token: TokenNotFound when the file is missing or empty after trim()
load_token ==
    IF tokenFile = {} \/ tokenFile = {AbsentToken}
    THEN [ok |-> FALSE, err |-> "TokenNotFound"]
    ELSE [ok |-> TRUE, err |-> ""]

\* is_token_invalid
is_token_invalid(res) == res \in {"InvalidToken", "InvalidCredentials"}

\* handle_command: the result, whether a request reached the server, and the
\* token file afterwards (save_token, delete_token)
handle_command(a, cmd, reachable, st, tok) ==
    CASE cmd = "logout"
           -> [res |-> "Ok", sent |-> FALSE, file |-> {}]
      [] cmd \in {"create", "update", "delete"} /\ ~load_token.ok
           -> [res |-> load_token.err, sent |-> FALSE, file |-> tokenFile]
      [] cmd # "logout" /\ (cmd \in {"create", "update", "delete"} => load_token.ok)
         /\ ~reachable
           -> [res |-> "Reqwest", sent |-> FALSE, file |-> tokenFile]
      [] OTHER
           -> [res  |-> ClientResult(a, cmd, st), sent |-> TRUE,
               file |-> IF /\ cmd \in {"register", "login"}
                           /\ ClientResult(a, cmd, st) = "Ok"
                        THEN {tok} ELSE tokenFile]

\* main: BlogClient::new(transport).await? (GrpcClient::new connects to the
\* server, HttpClient::new does not), handle_command, and delete_token when
\* the error is_token_invalid
Cli(cmd, grpc, reachable, st, tok) ==
    /\ IF grpc /\ ~reachable
       THEN /\ cliLast' = [cmd |-> cmd, grpc |-> grpc, connected |-> FALSE,
                           sent |-> FALSE, res |-> "GrpcTransport"]
            /\ UNCHANGED tokenFile
       ELSE LET h == handle_command(get_transport(grpc), cmd, reachable, st, tok)
            IN  /\ cliLast' = [cmd |-> cmd, grpc |-> grpc, connected |-> grpc,
                               sent |-> h.sent, res |-> h.res]
                /\ tokenFile' = IF is_token_invalid(h.res) THEN {} ELSE h.file
    /\ UNCHANGED <<serverVars, clientVars>>

InitCli ==
    /\ users = <<>>
    /\ posts = <<>>
    /\ nextPostId = 1
    /\ clock = 0
    /\ held = <<>>
    /\ inflight = EmptyBag
    /\ last = NoResp
    /\ mainPc = "select"
    /\ httpL = "accepting"
    /\ grpcL = "accepting"
    /\ ctrlC = FALSE
    /\ grpcSignal = FALSE
    /\ httpStop = FALSE
    /\ trigger = "none"
    /\ result = "none"
    /\ accepted = {}
    /\ atCancel = {}
    /\ clientInner = "http"
    /\ clientToken = {}
    /\ clientSent = 0
    /\ clientWire = NoRequest
    /\ clientResult = NoResult
    /\ listing = NoListing
    /\ tokenFile = {}
    /\ cliLast = NoCommand

NextCli ==
    \E cmd \in CliCommands, grpc \in BOOLEAN, reachable \in BOOLEAN,
       tok \in IssuedTokens :
       \E st \in CliStatuses(get_transport(grpc), cmd) :
          Cli(cmd, grpc, reachable, st, tok)

SpecCli == InitCli /\ [][NextCli]_vars

----------------------------------------------------------------------------
\* Claims about requests (checked under Spec).

\* The class of a wire status.
Class(status) ==
    CASE status \in {"401", "UNAUTHENTICATED"}   -> "unauthenticated"
      [] status \in {"403", "PERMISSION_DENIED"} -> "forbidden"
      [] status \in {"404", "NOT_FOUND"}         -> "not_found"
      [] status \in {"409", "ALREADY_EXISTS"}    -> "conflict"
      [] status \in {"500", "INTERNAL"}          -> "internal"
      [] OTHER                                   -> "ok"

Unauthenticated(a) == IF a = "http" THEN "401" ELSE "UNAUTHENTICATED"
Forbidden(a)       == IF a = "http" THEN "403" ELSE "PERMISSION_DENIED"
Conflict(a)        == IF a = "http" THEN "409" ELSE "ALREADY_EXISTS"

\* The spec's notion of a valid token of account uid: issued by the server
\* for uid and not yet at its expiry.
ValidFor(tok, uid) == tok \in HeldTokens /\ tok.user_id = uid /\ Now < tok.exp

\* C1: for every token and post id, a create, update or delete that the
\* HTTP adapter denies in the current state is denied by the gRPC adapter
\* too, with the same error class.
C1_SameDenial ==
    \A tok \in Tokens :
        /\ LET h == Auth("http", tok, Now)
               g == Auth("grpc", tok, Now)
           IN  ~h.ok => (~g.ok /\ Class(g.status) = Class(h.status))
        /\ \A id \in PostIds :
               LET h == Admit("http", tok, id, Now)
                   g == Admit("grpc", tok, id, Now)
               IN  ~h.ok => (~g.ok /\ Class(g.status) = Class(h.status))

\* C2: an update or delete of a post of account B with a valid token of
\* account A # B is answered Forbidden (403 / PERMISSION_DENIED) and leaves
\* nothing behind; and a post changes or disappears only in the store call
\* of a request of its author.
C2_NonOwnerForbidden ==
    [][ /\ \A a \in Adapters, tok \in HeldTokens, id \in DOMAIN posts :
               (ValidFor(tok, tok.user_id) /\ tok.user_id # posts[id].author_id)
               => /\ \A b \in Bodies :
                         BeginMutation(a, "update", tok, id, b[1], b[2])
                         => (last' = Forbidden(a) /\ posts' = posts
                                                  /\ inflight' = inflight)
                  /\ BeginMutation(a, "delete", tok, id, "", "")
                         => (last' = Forbidden(a) /\ posts' = posts
                                                  /\ inflight' = inflight)
        /\ \A id \in DOMAIN posts :
               (id \notin DOMAIN posts' \/ posts'[id] # posts[id])
               => \E r \in BagToSet(inflight) :
                      /\ r.id = id
                      /\ r.uid = posts[id].author_id
                      /\ (FinishUpdate(r) \/ FinishDelete(r))
      ]_vars

\* C2 witness: a non-owner has just been refused over gRPC while the post
\* exists and a mutation of it by its owner is in flight.
C2_Witness ==
    /\ last = "PERMISSION_DENIED"
    /\ \E id \in DOMAIN posts : \E r \in BagToSet(inflight) :
           r.id = id /\ r.uid = posts[id].author_id
    /\ Len(users) = 2

\* C3: a create, update or delete carrying a token whose expires_at has been
\* reached is answered 401 / UNAUTHENTICATED by both adapters.
C3_ExpiredRejected ==
    [][ \A a \in Adapters, tok \in HeldTokens :
            (Now >= tok.exp) =>
                /\ \A b \in Bodies :
                       CreatePost(a, tok, b[1], b[2]) => last' = Unauthenticated(a)
                /\ \A op \in {"update", "delete"}, id \in PostIds,
                      b \in Bodies \cup {<<"", "">>} :
                       BeginMutation(a, op, tok, id, b[1], b[2])
                           => last' = Unauthenticated(a)
      ]_vars

\* C4: a login with an unknown username and a login with a wrong password
\* are both answered 401 by HTTP and both UNAUTHENTICATED by gRPC.
C4_SameLoginError ==
    [][ \A a \in Adapters, name \in Usernames, pw \in Passwords :
            ( /\ Login(a, name, pw)
              /\ \/ get_by_username(name) = {}
                 \/ \E i \in get_by_username(name) :
                        users[i].password_hash.digest[2] # pw )
            => last' = Unauthenticated(a)
      ]_vars

\* C5: registering a username that exists is answered 409 / ALREADY_EXISTS
\* and leaves the account store (and the tokens) as they were.
C5_DuplicateRejected ==
    [][ \A a \in Adapters, acc \in NewAccounts, salt \in Salts :
            ( /\ \E i \in 1..Len(users) : users[i].username = acc[1]
              /\ Register(a, acc[1], acc[2], acc[3], salt) )
            => (last' = Conflict(a) /\ users' = users /\ held' = held)
      ]_vars

\* C5 witness: both usernames are taken and a registration over gRPC has
\* just been refused as a duplicate.
C5_Witness ==
    /\ last = "ALREADY_EXISTS"
    /\ Len(users) = 2

----------------------------------------------------------------------------
\* Claims about the orchestrator (checked under SpecOrch).

ListenerState(a) == IF a = "http" THEN httpL ELSE grpcL

\* C6: main never returns with exactly one listener still accepting.
C6_NeverHalfUp ==
    mainPc = "done" => ((httpL = "accepting") <=> (grpcL = "accepting"))

\* C7 as stated: once the orchestrator has observed Ctrl+C, no listener
\* accepts a request.
C7_NoAcceptAfterCancel ==
    [][ trigger = "ctrl_c" => \A a \in Adapters : Load(a)' <= Load(a) ]_vars

\* C7 amended: once the orchestrator has observed Ctrl+C, a listener accepts
\* a request only while it has not yet taken its stop signal; the HTTP
\* listener accepts none once stop(true) has returned, and no listener
\* accepts any once main has returned.
C7_NoAcceptAfterStop ==
    [][ \A a \in Adapters :
            (trigger = "ctrl_c" /\ Load(a)' > Load(a))
            => /\ ListenerState(a) = "accepting"
               /\ mainPc # "done"
               /\ (a = "http" => mainPc \in {"cc_send", "cc_stop", "cc_stop_wait"})
      ]_vars

\* C7 witness: Ctrl+C was observed with requests in flight on both
\* listeners, stop(true) has returned, and both listeners have left their
\* accept loops.
C7_Witness ==
    /\ trigger = "ctrl_c"
    /\ atCancel = Adapters
    /\ mainPc = "cc_join"
    /\ httpL = "stopped"
    /\ grpcL = "draining"

\* C8: on the cancellation path main returns only when both listener tasks
\* have ended: none is draining and no request is in flight.
C8_JoinedBeforeReturn ==
    (mainPc = "done" /\ trigger = "ctrl_c")
    => (httpL \in Finished /\ grpcL \in Finished /\ inflight = EmptyBag)

\* C8 witness: main has returned after a Ctrl+C that found requests in
\* flight on both listeners.
C8_Witness ==
    /\ mainPc = "done"
    /\ trigger = "ctrl_c"
    /\ atCancel = Adapters

\* C9: when main has returned, a listener that ended with an error makes the
\* result Err, and the result is Ok only if both listeners ended cleanly.
C9_ErrorReported ==
    mainPc = "done" =>
        /\ (httpL \in ExitedWithError \/ grpcL \in ExitedWithError) => result = "Err"
        /\ result = "Ok" => (httpL = "stopped" /\ grpcL = "stopped")

\* Running: main waits in select! and both listeners have bound.
Running ==
    /\ mainPc = "select"
    /\ httpL \in {"accepting", "draining"}
    /\ grpcL \in {"accepting", "draining"}

\* C10: if a listener failed to bind, no listener has accepted a request
\* and the orchestrator is not Running.
C10_NoPartialStartup ==
    (httpL = "bind_failed" \/ grpcL = "bind_failed") => (accepted = {} /\ ~Running)

\* C11: when main has returned because a listener task ended on its own, the
\* sibling was signalled to stop and both listener tasks have ended.
C11_SiblingStopped ==
    (mainPc = "done" /\ trigger \in {"http_task", "grpc_task"})
    => /\ httpL \in Finished
       /\ grpcL \in Finished
       /\ (trigger = "http_task" => grpcSignal)
       /\ (trigger = "grpc_task" => httpStop)

----------------------------------------------------------------------------
\* Further claims about requests (checked under Spec).

\* C12: a create, update or delete whose token is missing or fails
\* verification is answered 401 / UNAUTHENTICATED, and neither the post
\* store nor the set of suspended use-case calls changes.
C12_UnauthenticatedNoUseCase ==
    [][ \A a \in Adapters, tok \in Tokens :
            (tok.kind = "absent" \/ ~verify_token(tok, Now).ok) =>
                /\ \A b \in Bodies :
                       CreatePost(a, tok, b[1], b[2])
                       => (last' = Unauthenticated(a) /\ posts' = posts
                                                      /\ inflight' = inflight)
                /\ \A op \in {"update", "delete"}, id \in PostIds,
                      b \in Bodies \cup {<<"", "">>} :
                       BeginMutation(a, op, tok, id, b[1], b[2])
                       => (last' = Unauthenticated(a) /\ posts' = posts
                                                      /\ inflight' = inflight)
      ]_vars

\* C13: the store call of an update or delete that passed the ownership
\* check never ends in an internal error, whatever ran in between.
C13_NoInternalOnConflict ==
    [][ \A r \in BagToSet(inflight) :
            (FinishUpdate(r) \/ FinishDelete(r)) => Class(last') # "internal"
      ]_vars

UniqueAccounts ==
    \A i, j \in 1..Len(users) :
        i # j => /\ users[i].username # users[j].username
                 /\ users[i].email # users[j].email

\* C15: every step keeps the accounts unique, and a registration whose
\* username or email is taken, in whatever order it runs with the others,
\* is answered 409 / ALREADY_EXISTS and adds no account.
C15_UniqueAccounts ==
    [][ /\ UniqueAccounts'
        /\ \A a \in Adapters, acc \in NewAccounts, salt \in Salts :
               ( /\ \E i \in 1..Len(users) :
                        users[i].username = acc[1] \/ users[i].email = acc[2]
                 /\ Register(a, acc[1], acc[2], acc[3], salt) )
               => (last' = Conflict(a) /\ users' = users)
      ]_vars

\* C15 witness: two accounts exist and a registration over HTTP has just
\* been refused.
C15_Witness ==
    /\ Len(users) = 2
    /\ last = "409"

\* The error kinds the error table leaves to "any other".
OtherErrors ==
    {"SqlxError", "MigrateError", "DotenvyError", "VarError", "InvalidDatetime",
     "JwtError", "HashError", "Io"}

\* C17: both adapters map PostNotFound, Forbidden, UserAlreadyExists and
\* every other (storage / infrastructure) error kind to the codes of the
\* error table; in particular an update whose row is gone at its store
\* call (a storage error) is answered 500 / INTERNAL.
C17_ErrorTable ==
    [][ /\ \A e \in AppError :
             /\ e = "PostNotFound"
                  => (HttpStatus(e) = "404" /\ GrpcStatus(e) = "NOT_FOUND")
             /\ e = "Forbidden"
                  => (HttpStatus(e) = "403" /\ GrpcStatus(e) = "PERMISSION_DENIED")
             /\ e = "UserAlreadyExists"
                  => (HttpStatus(e) = "409" /\ GrpcStatus(e) = "ALREADY_EXISTS")
             /\ e \in OtherErrors
                  => (HttpStatus(e) = "500" /\ GrpcStatus(e) = "INTERNAL")
        /\ \A r \in BagToSet(inflight) :
               (FinishUpdate(r) /\ ~RowMatches(r.id, r.uid))
               => last' = (IF r.adapter = "http" THEN "500" ELSE "INTERNAL")
      ]_vars

\* C17 witness: a storage error has just been answered over HTTP (the row
\* of a suspended update was gone at its store call).
C17_Witness ==
    /\ last = "500"
    /\ posts = <<>>
    /\ nextPostId > 1

\* C18: whenever verify_token refuses a token (bad signature, malformed
\* encoding) the error kind is InvalidToken, and a token the server issued
\* is refused, with that kind, once now >= its expiry.
C18_VerifyInvalidToken ==
    \A tok \in Tokens \ {AbsentToken} :
        LET v == verify_token(tok, Now)
        IN  /\ ~v.ok => v.err = "InvalidToken"
            /\ (tok \in HeldTokens /\ Now >= tok.exp)
                   => (~v.ok /\ v.err = "InvalidToken")

\* Delays between issue and verification, around the end of the lifetime.
Delays ==
    {0, TOKEN_LIFETIME - 1, TOKEN_LIFETIME, TOKEN_LIFETIME + Leeway,
     TOKEN_LIFETIME + Leeway + 1}

\* C19: a token issued now for an account verifies after a delay dt, giving
\* back that account's id and name, if and only if dt < 24 hours; a token
\* signed with another key never verifies.
C19_RoundTrip ==
    /\ \A uid \in 1..Len(users), dt \in Delays :
           LET tok == generate_token(uid, users[uid].username, Now)
               v   == verify_token(tok, Now + dt)
           IN  (v.ok /\ v.user_id = uid /\ v.username = users[uid].username)
               <=> (dt < 24 * 3600)
    /\ \A tok \in ForgedTokens, dt \in Delays : ~verify_token(tok, Now + dt).ok

NotFound(a) == IF a = "http" THEN "404" ELSE "NOT_FOUND"

\* C20: a delete answered 204 / OK leaves the post absent; a post that was
\* created and is gone never comes back, every get of its id is answered
\* 404 / NOT_FOUND, and no list response shows it or counts it.
C20_DeletedStaysGone ==
    [][ /\ \A r \in BagToSet(inflight) :
               (FinishDelete(r) /\ last' \in {"204", "OK"})
               => r.id \notin DOMAIN posts'
        /\ \A id \in 1..(nextPostId - 1) :
               id \notin DOMAIN posts =>
                   /\ id \notin DOMAIN posts'
                   /\ \A a \in Adapters, tok \in Tokens :
                          GetPost(a, tok, id) => last' = NotFound(a)
                   /\ \A a \in Adapters, lim \in Limits, off \in Offsets,
                         tb \in TieBreaks :
                          (\E tok \in Tokens : GetPosts(a, tok, lim, off, tb)) =>
                              LET r == ListResponse(lim, off, tb)
                              IN  /\ \A i \in 1..Len(r.posts) : r.posts[i].id # id
                                  /\ r.total = Cardinality(DOMAIN posts)
      ]_vars

\* C20 witness: the post that was created has been deleted and a request
\* for it over HTTP has just been answered 404.
C20_Witness ==
    /\ nextPostId > 1
    /\ posts = <<>>
    /\ last = "404"

----------------------------------------------------------------------------
\* Claims about listing (checked under SpecList).

\* C16: a list request without limit and offset is answered with limit 10
\* and offset 0: min(10, number of posts) distinct posts of the store, in
\* descending order of created_at, none older than a post left out; and the
\* total of every list response is the number of posts in the store.
C16_ListDefaults ==
    [][ \A a \in Adapters, tb \in TieBreaks :
          /\ (\E tok \in Tokens : GetPosts(a, tok, {}, {}, tb)) =>
               \A r \in {ListResponse({}, {}, tb)} :
               \A n \in {Cardinality(DOMAIN posts)} :
               \A shown \in {{r.posts[i].id : i \in 1..Len(r.posts)}} :
                   /\ r.limit = 10 /\ r.offset = 0
                   /\ Len(r.posts) = IF n < 10 THEN n ELSE 10
                   /\ Cardinality(shown) = Len(r.posts)
                   /\ \A i \in 1..Len(r.posts) :
                          /\ r.posts[i].id \in DOMAIN posts
                          /\ r.posts[i] = posts[r.posts[i].id]
                   /\ \A i \in 1..(Len(r.posts) - 1) :
                          r.posts[i].created_at >= r.posts[i + 1].created_at
                   /\ \A i \in shown, j \in (DOMAIN posts) \ shown :
                          posts[i].created_at >= posts[j].created_at
                   /\ r.total = n
          /\ \A lim \in Limits, off \in Offsets :
                 (\E tok \in Tokens : GetPosts(a, tok, lim, off, tb))
                 => ListResponse(lim, off, tb).total = Cardinality(DOMAIN posts)
      ]_vars

\* C16 witness: a list request was answered over gRPC while the store holds
\* more posts than the default limit, two of them created in the same second.
C16_Witness ==
    /\ last = "OK"
    /\ Cardinality(DOMAIN posts) = MaxListed
    /\ \E i, j \in DOMAIN posts : i # j /\ posts[i].created_at = posts[j].created_at

----------------------------------------------------------------------------
\* C21: create/get round trip. A create that succeeds for a caller
\* authenticated as account A stores a post under the returned id with the
\* given title and content and author_id = A's id; a get of an existing id
\* without a token is answered Ok through either adapter with that stored
\* row; and a stored row differs in the next state only by the storage step
\* of an update or a delete of that id.
C21_CreateGetRoundTrip ==
    [][ /\ \A a \in Adapters, tok \in HeldTokens, b \in Bodies :
              (Auth(a, tok, Now).ok /\ CreatePost(a, tok, b[1], b[2])) =>
                  \E id \in {nextPostId} :
                      /\ id \in DOMAIN posts'
                      /\ get_post_row(id)'.id = id
                      /\ get_post_row(id)'.title = b[1]
                      /\ get_post_row(id)'.content = b[2]
                      /\ get_post_row(id)'.author_id = Auth(a, tok, Now).user_id
                      /\ get_post_row(id)'.author_id = tok.user_id
        /\ \A a \in Adapters, id \in DOMAIN posts :
              (\E tok \in Anonymous : GetPost(a, tok, id)) =>
                  last' = OkStatus(a, "get")
        /\ \A id \in DOMAIN posts :
              (id \notin DOMAIN posts' \/ get_post_row(id)' # get_post_row(id)) =>
                  \E r \in BagToSet(inflight) :
                      r.id = id /\ (FinishUpdate(r) \/ FinishDelete(r))
      ]_vars

\* C21 witness: a post of the second account is stored and a get was just
\* answered Ok over HTTP while no update or delete is in flight.
C21_Witness ==
    /\ last = "200"
    /\ \E id \in DOMAIN posts : posts[id].author_id = 2 /\ posts[id].title = "T2"
    /\ posts[1].updated_at = posts[1].created_at
    /\ inflight = EmptyBag

----------------------------------------------------------------------------
\* C22: the author_id of every post that enters the store, through either
\* adapter, is the user_id of a token that verifies at that moment and that
\* the creating request carried, whatever author the request names in its
\* body; and it is the id of a registered account.
C22_AuthorFromToken ==
    [][ \A id \in (DOMAIN posts') \ (DOMAIN posts) :
            /\ \E a \in Adapters, tok \in Tokens :
                  /\ verify_token(tok, Now).ok
                  /\ posts'[id].author_id = verify_token(tok, Now).user_id
                  /\ \E b \in Bodies : CreatePost(a, tok, b[1], b[2])
            /\ \A a \in Adapters, tok \in Tokens, b \in Bodies :
                  CreatePost(a, tok, b[1], b[2]) => posts'[id].author_id = tok.user_id
            /\ posts'[id].author_id \in 1..Len(users)
      ]_vars

\* C22 witness: the second account created a post over gRPC while the first
\* account also holds a token.
C22_Witness ==
    /\ last = "OK"
    /\ Len(held) >= 2
    /\ \E id \in DOMAIN posts : posts[id].author_id = 2 /\ nextPostId = id + 1

----------------------------------------------------------------------------
\* C23: ownership is never transferred. A post that is in the store before
\* and after a step, whatever the step and the adapter, has the same
\* author_id and the same created_at (and the same id) after it as before.
C23_OwnershipFixed ==
    [][ \A id \in (DOMAIN posts) \cap (DOMAIN posts') :
            /\ posts'[id].author_id = posts[id].author_id
            /\ posts'[id].created_at = posts[id].created_at
            /\ posts'[id].id = id
      ]_vars

\* C23 witness: a post was updated at a later second than it was created and
\* still has the author and the creation time it was created with.
C23_Witness ==
    \E id \in DOMAIN posts :
        /\ posts[id].updated_at > posts[id].created_at
        /\ posts[id].created_at = Instant(0)
        /\ posts[id].author_id = 1
        /\ posts[id].title = "T2"

----------------------------------------------------------------------------
----------------------------------------------------------------------------
\* C25: get and list need no authentication and change nothing. Through
\* either adapter, a get or a list carrying no token, a malformed token, a
\* token signed with another key, an expired token or a valid token is
\* answered as the same request carrying a token freshly issued by the
\* server: Ok with the stored row (PostNotFound when the id is absent for
\* get), Ok for list; and the step leaves the post store and the account
\* store as they were.
C25_ReadsArePublic ==
    [][ \A a \in Adapters :
          /\ \A id \in {1, nextPostId} :
                /\ (\E tok \in Tokens : GetPost(a, tok, id)) =>
                       /\ last' = IF id \in DOMAIN posts THEN OkStatus(a, "get")
                                  ELSE NotFound(a)
                       /\ posts' = posts /\ users' = users
                       /\ nextPostId' = nextPostId /\ held' = held
                /\ \A tok \in Tokens :
                       GetPost(a, tok, id)
                       <=> GetPost(a, generate_token(1, users[1].username, Now), id)
          /\ \A lim \in Limits, off \in Offsets, tb \in TieBreaks :
                /\ (\E tok \in Tokens : GetPosts(a, tok, lim, off, tb)) =>
                       /\ last' = OkStatus(a, "list")
                       /\ posts' = posts /\ users' = users
                       /\ nextPostId' = nextPostId /\ held' = held
                /\ \A tok \in Tokens :
                       GetPosts(a, tok, lim, off, tb)
                       <=> GetPosts(a, generate_token(1, users[1].username, Now), lim, off, tb)
      ]_vars

\* C25 witness: the only token the caller holds has expired, the store has
\* posts, and a read was just answered 200.
C25_Witness ==
    /\ last = "200"
    /\ posts # <<>>
    /\ held # <<>>
    /\ \A t \in HeldTokens : ~verify_token(t, Now).ok

----------------------------------------------------------------------------
\* C26: on a BlogClient whose token was never set, create_post, update_post
\* and delete_post return TokenNotSet and put nothing on the wire; with a
\* token set they send the request with that token as bearer; register,
\* login, get_post and get_posts send their request whether or not a token
\* is set, without credential, and never return TokenNotSet.
C26_TokenNotSet ==
    [][ /\ (clientToken = {} /\ BlogClient_create_post) =>
              /\ clientResult' = [op |-> "create", res |-> "TokenNotSet"]
              /\ clientSent' = clientSent /\ clientWire' = clientWire
        /\ (clientToken = {} /\ BlogClient_update_post) =>
              /\ clientResult' = [op |-> "update", res |-> "TokenNotSet"]
              /\ clientSent' = clientSent /\ clientWire' = clientWire
        /\ (clientToken = {} /\ BlogClient_delete_post) =>
              /\ clientResult' = [op |-> "delete", res |-> "TokenNotSet"]
              /\ clientSent' = clientSent /\ clientWire' = clientWire
        /\ (clientToken # {} /\ (\/ BlogClient_create_post
                                 \/ BlogClient_update_post
                                 \/ BlogClient_delete_post)) =>
              /\ clientSent' = clientSent + 1
              /\ clientWire'.bearer = clientToken
              /\ clientResult'.res # "TokenNotSet"
        /\ (\/ BlogClient_register \/ BlogClient_login
            \/ BlogClient_get_post \/ BlogClient_get_posts) =>
              /\ clientSent' = clientSent + 1
              /\ clientWire'.bearer = {}
              /\ clientResult'.res # "TokenNotSet"
        /\ clientSent' = clientSent => clientWire' = clientWire
      ]_vars

\* C26 witness: the client has sent requests (a register among them), never
\* had a token, and its last call, delete_post, returned TokenNotSet.
C26_Witness ==
    /\ clientToken = {}
    /\ clientResult = [op |-> "delete", res |-> "TokenNotSet"]
    /\ clientSent = 1
    /\ clientWire.op = "register"

----------------------------------------------------------------------------
\* C27: update(id, title, content, caller). An authenticated update of an
\* id that is not in the store is answered PostNotFound and changes nothing;
\* an update that found the post and its caller to be the author returns Ok
\* with the stored post carrying the new title and content, the same id,
\* author_id and created_at and an updated_at not earlier than before; an
\* update that ends in an error leaves the store as it was.
C27_UpdateContract ==
    [][ /\ \A a \in Adapters, tok \in HeldTokens, id \in PostIds, b \in Bodies :
              ( /\ Auth(a, tok, Now).ok
                /\ id \notin DOMAIN posts
                /\ BeginMutation(a, "update", tok, id, b[1], b[2]) )
              => (last' = NotFound(a) /\ posts' = posts)
        /\ \A r \in BagToSet(inflight) :
              FinishUpdate(r) =>
                  /\ last' = OkStatus(r.adapter, "update")
                  /\ r.id \in DOMAIN posts
                  /\ r.id \in DOMAIN posts'
                  /\ get_post_row(r.id)'.title = r.title
                  /\ get_post_row(r.id)'.content = r.content
                  /\ get_post_row(r.id)'.id = get_post_row(r.id).id
                  /\ get_post_row(r.id)'.author_id = get_post_row(r.id).author_id
                  /\ get_post_row(r.id)'.created_at = get_post_row(r.id).created_at
                  /\ get_post_row(r.id)'.updated_at >= get_post_row(r.id).updated_at
        /\ \A r \in BagToSet(inflight) :
              (FinishUpdate(r) /\ last' # OkStatus(r.adapter, "update")) => posts' = posts
      ]_vars

----------------------------------------------------------------------------
\* C28: login(username, password) is answered Ok exactly when an account
\* with that username is stored and the password is the one it was
\* registered with; the token then issued carries that account's id and
\* username and verifies; and no login, successful or not, changes the
\* account store.
C28_LoginContract ==
    [][ \A a \in Adapters, name \in Usernames, pw \in Passwords :
            (posts' = posts /\ inflight' = inflight /\ Login(a, name, pw)) =>
                /\ users' = users
                /\ (last' = OkStatus(a, "login"))
                   <=> \E i \in 1..Len(users) :
                          /\ users[i].username = name
                          /\ users[i].password_hash.digest[2] = pw
                /\ last' = OkStatus(a, "login") =>
                      \E i \in 1..Len(users) :
                          /\ users[i].username = name
                          /\ held'[i] = generate_token(i, name, Now)
                          /\ verify_token(held'[i], Now).ok
                          /\ verify_token(held'[i], Now).user_id = users[i].id
                          /\ verify_token(held'[i], Now).username = users[i].username
                /\ last' # OkStatus(a, "login") => held' = held
      ]_vars

\* C28 witness: two accounts are stored; the first logged in again at a
\* later instant and holds the token issued then, the second still holds the
\* token of its registration.
C28_Witness ==
    /\ Len(users) = 2
    /\ last = "200"
    /\ clock = 1
    /\ held[1] = generate_token(1, users[1].username, Now)
    /\ held[2] = generate_token(2, users[2].username, Instant(0))

----------------------------------------------------------------------------
----------------------------------------------------------------------------
----------------------------------------------------------------------------
\* C31: shutdown terminates. Once main has taken the Ctrl+C branch of
\* select!, it eventually returns, even if a request in flight on either
\* listener is never answered.
C31_ShutdownTerminates == (trigger = "ctrl_c") ~> (mainPc = "done")

\* C32: a login that finds an account whose stored password_hash does not
\* parse answers 500 over HTTP and INTERNAL over gRPC, whatever the password,
\* and hands out no token.
C32_MalformedHashIsInternal ==
    [][\A a \in Adapters, name \in Usernames, pw \in Passwords :
          (/\ Login(a, name, pw)
           /\ \E i \in get_by_username(name) :
                  users[i].password_hash \in MalformedHashes)
          => /\ last' = (IF a = "http" THEN "500" ELSE "INTERNAL")
             /\ last' # ErrorStatus(a, "InvalidCredentials")
             /\ last' # OkStatus(a, "login")
             /\ held' = held]_vars

C32_Witness ==
    /\ \E i \in 1..Len(users) : users[i].password_hash \in MalformedHashes
    /\ last \in {"500", "INTERNAL"}

\* C33: every stored post's author_id is the id of a stored account, also
\* while updates and deletes are in flight.
C33_AuthorExists ==
    \A id \in DOMAIN posts : \E i \in 1..Len(users) : users[i].id = posts[id].author_id

C33_Witness ==
    /\ Len(users) = 2
    /\ \E id \in DOMAIN posts : posts[id].author_id = 2

\* C34: the second part of a delete answers success only if this very call
\* removed the post; when the post is already gone (a concurrent delete by
\* the same owner ran first) it answers PostNotFound.
C34_DeleteReportsOwnRemoval ==
    [][\A r \in BagToSet(inflight) :
          FinishDelete(r)
          => IF r.id \in DOMAIN posts
             THEN /\ last' = OkStatus(r.adapter, "delete")
                  /\ r.id \notin DOMAIN posts'
             ELSE last' = ErrorStatus(r.adapter, "PostNotFound")]_vars

\* C35: a list response never carries more posts than its total leaves after
\* the offset, also when a create or a delete runs between the two reads of
\* the list call.
C35_PageWithinTotal ==
    (listing.pc = "done" /\ listing.offset <= listing.total)
    => Len(listing.page) <= listing.total - listing.offset

\* C36: a register that answers an error leaves the account store as it was,
\* whichever of its calls failed.
C36_RegisterAllOrNothing ==
    [][\A a \in Adapters, acc \in NewAccounts, salt \in Salts :
          (\/ Register(a, acc[1], acc[2], acc[3], salt)
           \/ \E fault \in RegisterFaults :
                 RegisterFault(a, acc[1], acc[2], acc[3], salt, fault))
          => (last' # OkStatus(a, "register") => users' = users)]_vars

\* C37: a run of the command line tool leaves a token in the token file only
\* when it was a successful register or login; after a logout, and after a
\* run that failed with InvalidToken or InvalidCredentials, the file is
\* absent; and with the file absent a create, update or delete fails with
\* TokenNotFound without a connection or a request to the server.
C37_CliSession ==
    [][/\ (tokenFile' # {} /\ tokenFile' # tokenFile)
           => (cliLast'.cmd \in {"register", "login"} /\ cliLast'.res = "Ok")
       /\ (cliLast'.cmd = "logout" \/ is_token_invalid(cliLast'.res))
           => tokenFile' = {}
       /\ (tokenFile = {} /\ cliLast'.cmd \in {"create", "update", "delete"})
           => /\ cliLast'.res = "TokenNotFound"
              /\ ~cliLast'.connected
              /\ ~cliLast'.sent]_vars

\* C38: when a call on the BlogClient returned what its transport makes of a
\* domain error of the server, the other transport makes the same variant of
\* that domain error for the same operation.
C38_SameVariantOnBothTransports ==
    \A e \in DomainErrors(clientResult.op) :
        clientResult.res
            = ClientResult(clientInner, clientResult.op, ErrorStatus(clientInner, e))
        => \A b \in Adapters :
               ClientResult(b, clientResult.op, ErrorStatus(b, e)) = clientResult.res

====
